---- MODULE Spec2Model ----
(***************************************************************************)
(* Model of merezhka (src/src/main.rs): the Home component's URL effect,   *)
(* the two-stage fetch of fetch_status_and_context, the reconstruction     *)
(* loop of fetch_thread and the Threads component's resource and view.     *)
(*                                                                         *)
(* An Option<T> is modelled as a sequence of length 0 (None) or 1 (Some).  *)
(* A String is a sequence of one-character strings where its characters    *)
(* are inspected (the URL path segments), an opaque string otherwise.      *)
(***************************************************************************)
EXTENDS Naturals, Sequences, FiniteSets

\* ------------------------------------------------------------------ bounds
\* Longest descendant list a decoded Context carries.
MaxLen == 3
\* Longest path segment of a pasted URL, in characters.
MaxSegLen == 2
\* Largest number of path segments of a pasted URL.
MaxSegs == 2

\* ------------------------------------------------------------ data model
\* Status.in_reply_to_id == None
None == "None"

\* Values of Status.id (opaque strings, compared for equality only).
Ids == {"1", "2", "3"}

\* Values of Account.id.
AccountIds == {"A", "B"}

\* struct Account, reduced to the one field the program reads.
Account(a) == [id |-> a]

\* struct Status.  content is the post's HTML; the model gives the k-th
\* received descendant the content k (and the root post 0) so that a post can
\* be told from an equal-looking one.
Status(i, r, a, c) == [id |-> i, in_reply_to_id |-> r, account |-> Account(a), content |-> c]

\* The payloads status.json::<Status>() can decode to.
RootStatuses == {Status("1", None, a, 0) : a \in AccountIds}

\* A descendant as the server sends it, without its place in the list.
DescendantShapes == {Status(i, r, a, 0) : i \in Ids, r \in Ids \cup {None}, a \in AccountIds}

\* struct Context: the payload context.json::<Context>() decodes to when the
\* server sends the descendants p, in that order.
Context(p) == [descendants |-> [k \in DOMAIN p |-> [p[k] EXCEPT !.content = k]]]

\* ------------------------------------------------------------- variables
VARIABLES
  url,          \* Home: the url signal, as url::Url::parse sees it
  route,        \* the router's current path
  statusSend,   \* the GET .../statuses/{id} request future
  contextSend,  \* the GET .../statuses/{id}/context request future
  statusJson,   \* the status.json::<Status>() future
  contextJson,  \* the context.json::<Context>() future
  fetchResult,  \* what fetch_status_and_context returned
  status,       \* the decoded Status (Option)
  context,      \* the decoded Context (Option)
  account_id,   \* fetch_thread: account_id
  thread,       \* fetch_thread: thread
  descendants,  \* fetch_thread: descendants
  iterations,   \* number of times the loop body has been entered
  pc,           \* position of the resource's async task
  resource      \* Threads: thread.get() (Option)

vars == <<url, route, statusSend, contextSend, statusJson, contextJson, fetchResult,
          status, context, account_id, thread, descendants, iterations, pc, resource>>

homeVars == <<url, route>>

threadsVars == <<statusSend, contextSend, statusJson, contextJson, fetchResult,
                 status, context, account_id, thread, descendants, iterations, pc, resource>>

\* ------------------------------------------------------------------ Home
\* Characters a pasted URL's path segments are made of.
Alphabet == {"4", "a"}

\* char::is_digit(10)
IsDigit(c) == c \in {"0", "1", "2", "3", "4", "5", "6", "7", "8", "9"}

Strings(n) == UNION {[1..k -> Alphabet] : k \in 0..n}

\* Url::host_str() of the pasted URLs that have a host.
Hosts == {<<"m", ".", "s">>, <<"h">>}

\* Url::path_segments() when it is Some: at least one segment.
SegmentLists == UNION {[1..k -> Strings(MaxSegLen)] : k \in 1..MaxSegs}

\* What url::Url::parse(&url.get()) yields: Err (<<>>) or a Url, of which the
\* effect reads host_str() and path_segments().  A URL that cannot be a base
\* (mailto:...) has neither, file:///... has segments and no host.
ParsedUrls ==
  {<<>>}
  \cup {<<[host_str |-> <<>>, path_segments |-> <<>>]>>}
  \cup {<<[host_str |-> <<>>, path_segments |-> <<s>>]>> : s \in SegmentLists}
  \cup {<<[host_str |-> <<h>>, path_segments |-> <<s>>]>> : h \in Hosts, s \in SegmentLists}

\* The route "/" that shows Home.
HomePath == <<"/">>

\* format!("/{host}/{id}")
RoutePath(host, id) == <<"/">> \o host \o <<"/">> \o id

\* id.chars().find(|c| !c.is_digit(10)).is_some()
IdIsNonNumeric(id) == \E k \in DOMAIN id : ~IsDigit(id[k])

\* The path the effect navigates to for the pasted URL u, or the current path.
EffectRoute(u, current) ==
  IF u = <<>> THEN current
  ELSE IF u[1].host_str = <<>> \/ u[1].path_segments = <<>> THEN current
  ELSE LET segments == u[1].path_segments[1]
           id == segments[Len(segments)]
       IN IF ~IdIsNonNumeric(id) THEN RoutePath(u[1].host_str[1], id) ELSE current

\* on:input sets the url signal and the effect runs on the new value.
Input ==
  /\ route = HomePath
  /\ \E u \in ParsedUrls :
       /\ url' = u
       /\ route' = EffectRoute(u, route)
  /\ UNCHANGED threadsVars

\* --------------------------------------------------------------- Fetcher
\* Mutant of TryJoin: resolves as soon as one of the two has succeeded.
TryJoin_Either(a, b) ==
  IF a = "ok" \/ b = "ok" THEN "ok"
  ELSE IF a = "err" \/ b = "err" THEN "err"
  ELSE "pending"

\* (a, b).try_join(): fails as soon as one fails, succeeds when both have.
TryJoin(a, b) ==
  IF a = "err" \/ b = "err" THEN "err"
  ELSE IF a = "ok" /\ b = "ok" THEN "ok"
  ELSE "pending"

\* A future that try_join drops unfinished.
Dropped(f) == IF f = "pending" THEN "dropped" ELSE f

\* The task is polled after one send() resolved: s and c are the two request
\* futures' new states.
SendResolved(s, c) ==
  LET joined == TryJoin(s, c) IN
  /\ statusSend' = (IF joined = "err" THEN Dropped(s) ELSE s)
  /\ contextSend' = (IF joined = "err" THEN Dropped(c) ELSE c)
  /\ statusJson' = (IF joined = "ok" THEN "pending" ELSE statusJson)
  /\ contextJson' = (IF joined = "ok" THEN "pending" ELSE contextJson)
  /\ fetchResult' = (IF joined = "err" THEN "Err" ELSE fetchResult)
  /\ pc' = (IF joined = "err" THEN "panic_fetch" ELSE IF joined = "ok" THEN "json" ELSE pc)
  /\ UNCHANGED <<status, context, account_id, thread, descendants, iterations, resource>>

StatusSent ==
  /\ pc = "send"
  /\ statusSend = "pending"
  /\ \E outcome \in {"ok", "err"} : SendResolved(outcome, contextSend)
  /\ UNCHANGED homeVars

ContextSent ==
  /\ pc = "send"
  /\ contextSend = "pending"
  /\ \E outcome \in {"ok", "err"} : SendResolved(statusSend, outcome)
  /\ UNCHANGED homeVars

\* The task is polled after one json() resolved: s and c are the two decoding
\* futures' new states, st and ctx the payloads decoded so far.  When both
\* have decoded, fetch_status_and_context returns Ok and fetch_thread runs up
\* to its loop.
JsonResolved(s, c, st, ctx) ==
  LET joined == TryJoin(s, c) IN
  /\ statusJson' = (IF joined = "err" THEN Dropped(s) ELSE s)
  /\ contextJson' = (IF joined = "err" THEN Dropped(c) ELSE c)
  /\ status' = st
  /\ context' = ctx
  /\ fetchResult' = (IF joined = "err" THEN "Err" ELSE IF joined = "ok" THEN "Ok" ELSE fetchResult)
  /\ pc' = (IF joined = "err" THEN "panic_fetch" ELSE IF joined = "ok" THEN "loop" ELSE pc)
  /\ account_id' = (IF joined = "ok" THEN st[1].account.id ELSE account_id)
  /\ thread' = (IF joined = "ok" THEN <<st[1]>> ELSE thread)
  /\ descendants' = (IF joined = "ok" THEN ctx[1].descendants ELSE descendants)
  /\ UNCHANGED <<statusSend, contextSend, iterations, resource>>

StatusDecoded ==
  /\ pc = "json"
  /\ statusJson = "pending"
  /\ \E st \in RootStatuses : JsonResolved("ok", contextJson, <<st>>, context)
  /\ UNCHANGED homeVars

StatusDecodeFailed ==
  /\ pc = "json"
  /\ statusJson = "pending"
  /\ JsonResolved("err", contextJson, status, context)
  /\ UNCHANGED homeVars

ContextDecoded ==
  /\ pc = "json"
  /\ contextJson = "pending"
  /\ \E n \in 0..MaxLen : \E p \in [1..n -> DescendantShapes] :
       JsonResolved(statusJson, "ok", status, <<Context(p)>>)
  /\ UNCHANGED homeVars

ContextDecodeFailed ==
  /\ pc = "json"
  /\ contextJson = "pending"
  /\ JsonResolved(statusJson, "err", status, context)
  /\ UNCHANGED homeVars

\* --------------------------------------------------------- Reconstructor
Last(s) == s[Len(s)]

\* Mutant of SameAccount: the account test is left out.
SameAccount_Any(s, acc) == TRUE

\* The partition closure's left operand: s.account.id == *account_id
SameAccount(s, acc) == s.account.id = acc

\* Mutant of IsMatch: the reply target is not compared.
IsMatch_AnyReply(s, last, acc) == SameAccount(s, acc)

\* The partition closure, for a status whose in_reply_to_id can be unwrapped.
IsMatch(s, last, acc) == SameAccount(s, acc) /\ s.in_reply_to_id = last.id

\* The closure unwraps in_reply_to_id of every status that passes the account
\* test (&& short-circuits): Option::unwrap panics on None.
UnwrapPanics(descs, acc) ==
  \E k \in DOMAIN descs : SameAccount(descs[k], acc) /\ descs[k].in_reply_to_id = None

\* Mutant of Matched: only the first match is taken (find, not partition).
Matched_FirstOnly(descs, last, acc) ==
  LET hits == {k \in DOMAIN descs : IsMatch(descs[k], last, acc)} IN
  IF hits = {} THEN <<>>
  ELSE <<descs[CHOOSE k \in hits : \A m \in hits : k <= m]>>

\* Mutant of Matched: the matches come out in reverse order.
Matched_Reversed(descs, last, acc) ==
  LET Test(s) == IsMatch(s, last, acc)
      m == SelectSeq(descs, Test)
  IN [k \in DOMAIN m |-> m[Len(m) + 1 - k]]

\* partition's first vector.
Matched(descs, last, acc) ==
  LET Test(s) == IsMatch(s, last, acc) IN SelectSeq(descs, Test)

\* Mutant of Remaining: the matched statuses stay in the pool.
Remaining_KeepsAll(descs, last, acc) == descs

\* partition's second vector.
Remaining(descs, last, acc) ==
  LET Test(s) == ~IsMatch(s, last, acc) IN SelectSeq(descs, Test)

\* One pass through the loop body.  The pass that finds no match breaks, and
\* the task returns the thread to the resource.
Iterate ==
  /\ pc = "loop"
  /\ iterations' = iterations + 1
  /\ IF UnwrapPanics(descendants, account_id)
     THEN /\ pc' = "panic_reply"
          /\ UNCHANGED <<thread, descendants, resource>>
     ELSE LET matched == Matched(descendants, Last(thread), account_id)
              remaining == Remaining(descendants, Last(thread), account_id)
          IN IF matched = <<>>
             THEN /\ pc' = "done"
                  /\ resource' = <<thread>>
                  /\ UNCHANGED <<thread, descendants>>
             ELSE /\ thread' = thread \o matched
                  /\ descendants' = remaining
                  /\ UNCHANGED <<pc, resource>>
  /\ UNCHANGED <<statusSend, contextSend, statusJson, contextJson, fetchResult,
                 status, context, account_id>>
  /\ UNCHANGED homeVars

\* The loop as a function of its inputs, for inputs on which no unwrap panics.
RECURSIVE Loop(_, _, _)
Loop(thr, descs, acc) ==
  LET matched == Matched(descs, Last(thr), acc) IN
  IF matched = <<>> THEN thr
  ELSE Loop(thr \o matched, Remaining(descs, Last(thr), acc), acc)

\* ------------------------------------------------------------------ view
\* The Threads view closure: what the user sees.
View == IF resource = <<>> THEN "loading" ELSE "rendered"

\* The rendered blocks, one inner_html per status.
Rendered == IF resource = <<>> THEN <<>> ELSE [k \in DOMAIN resource[1] |-> resource[1][k].content]

\* --------------------------------------------------------- specification
Init ==
  /\ url = <<>>
  /\ route = HomePath
  /\ statusSend = "pending"
  /\ contextSend = "pending"
  /\ statusJson = "idle"
  /\ contextJson = "idle"
  /\ fetchResult = "pending"
  /\ status = <<>>
  /\ context = <<>>
  /\ account_id = None
  /\ thread = <<>>
  /\ descendants = <<>>
  /\ iterations = 0
  /\ pc = "send"
  /\ resource = <<>>

\* The Threads route: one fetch-reconstruct-render cycle.
Next ==
  \/ StatusSent
  \/ ContextSent
  \/ StatusDecoded
  \/ StatusDecodeFailed
  \/ ContextDecoded
  \/ ContextDecodeFailed
  \/ Iterate

Spec == Init /\ [][Next]_vars

\* The Home route: the user types or pastes into the input.
HomeNext == Input

HomeSpec == Init /\ [][HomeNext]_vars

\* ---------------------------------------------------------------- claims
Range(s) == {s[k] : k \in DOMAIN s}

\* The descendant list as it was received.
received == context[1].descendants

\* The root post as it was fetched.
root == status[1]

\* fetch_thread is at or past its loop.
Reconstructing == pc \in {"loop", "done", "panic_reply"}

\* s is a post of the root post's author.
ByRootAuthor(s) == s.account.id = root.account.id

\* C1 as stated: every post of the thread after the first replies to the post
\* immediately before it in the thread, batches included.
C1_RepliesToImmediatePredecessor ==
  \A i \in 2..Len(thread) : thread[i].in_reply_to_id = thread[i - 1].id

\* C1 amended: every post of the thread after the first replies to an earlier
\* post of the thread, and so do all the posts between the two: it replies to
\* the post that was last when its batch was matched.
C1_RepliesToBatchPredecessor ==
  \A i \in 2..Len(thread) :
    \E j \in 1..(i - 1) : \A k \in (j + 1)..i : thread[k].in_reply_to_id = thread[j].id

\* C1: a finished thread whose second and third posts both reply to the root,
\* which is not the post before the third.
C1_Witness ==
  /\ pc = "done"
  /\ Len(thread) >= 3
  /\ thread[2].in_reply_to_id = thread[1].id
  /\ thread[3].in_reply_to_id = thread[1].id
  /\ thread[2].id # thread[1].id

\* C2 as stated: a descendant without in_reply_to_id is never in the thread
\* and never makes reconstruction fail, whoever its author is.
C2_AbsentReplyTargetIsSafe ==
  /\ \A i \in 2..Len(thread) : thread[i].in_reply_to_id # None
  /\ pc # "panic_reply"

\* C3 as stated: when reconstruction has finished, no descendant left out of
\* the thread is by the root's author and a reply to any post of the thread.
C3_MaximalOverWholeThread ==
  pc = "done" =>
    \A d \in Range(received) \ Range(thread) : \A j \in DOMAIN thread :
      ~(ByRootAuthor(d) /\ d.in_reply_to_id = thread[j].id)

\* C3 amended: when reconstruction has finished, no descendant left out of the
\* thread is by the root's author and a reply to a post that was the last of
\* the thread in some iteration: the thread's last post, or a post that the
\* post after it replies to (the root and the last post of each batch).
C3_MaximalOverBatchEnds ==
  pc = "done" =>
    \A d \in Range(received) \ Range(thread) : \A j \in DOMAIN thread :
      (j = Len(thread) \/ thread[j + 1].in_reply_to_id = thread[j].id)
        => ~(ByRootAuthor(d) /\ d.in_reply_to_id = thread[j].id)

\* C3: a finished thread with a batch, and a post of the root's author left out
\* that replies to a post of the thread.
C3_Witness ==
  /\ pc = "done"
  /\ Len(thread) >= 3
  /\ \E d \in Range(received) \ Range(thread) : \E j \in DOMAIN thread :
       ByRootAuthor(d) /\ d.in_reply_to_id = thread[j].id

\* C4 as stated: the loop runs at most |descendants| iterations, for the empty
\* list too.
C4_AtMostLenIterations == Reconstructing => iterations <= Len(received)

\* The iterations so far that went on to another one.
continued == IF pc = "loop" THEN iterations ELSE iterations - 1

\* C4 amended: every iteration that continues removes at least one post from
\* the pool, the loop body runs at most |descendants| + 1 times (the last pass
\* finds no match), and the loop is never stuck before it ends.
C4_LoopBounded ==
  Reconstructing =>
    /\ iterations <= Len(received) + 1
    /\ Len(descendants) + continued <= Len(received)
    /\ pc = "loop" => ENABLED Iterate

\* C4: a chain as long as the received list: one iteration for each post and
\* one more that finds nothing.
C4_Witness ==
  /\ pc = "done"
  /\ Len(received) >= 2
  /\ iterations = Len(received) + 1

ContentIncreasing(s) == \A i, j \in DOMAIN s : i < j => s[i].content < s[j].content

\* s with its i-th element moved to place j.
Move(s, i, j) ==
  LET rest == SubSeq(s, 1, i - 1) \o SubSeq(s, i + 1, Len(s))
  IN SubSeq(rest, 1, j - 1) \o <<s[i]>> \o SubSeq(rest, j, Len(rest))

\* The unmatched pool is in the order of the received list.
PoolKeepsOrder == ContentIncreasing(descendants)

\* Whether a descendant ends up in the thread is the same wherever it stands
\* in the received list, before or after the post it replies to.
InclusionIndependent ==
  pc = "done" =>
    \A i, j \in DOMAIN received :
      (received[i] \in Range(thread))
        <=> (received[i] \in Range(Loop(<<root>>, Move(received, i, j), account_id)))

\* An iteration that continues appends, after everything appended before, all
\* of the pool's posts by the root's author that reply to the last post, in
\* the order of the received list, and takes exactly those out of the pool.
BatchStep ==
  (pc = "loop" /\ thread' # thread) =>
    /\ Len(thread') > Len(thread)
    /\ SubSeq(thread', 1, Len(thread)) = thread
    /\ LET batch == SubSeq(thread', Len(thread) + 1, Len(thread')) IN
       /\ ContentIncreasing(batch)
       /\ Range(batch) = {d \in Range(descendants) :
                            ByRootAuthor(d) /\ d.in_reply_to_id = Last(thread).id}
       /\ Range(descendants') = Range(descendants) \ Range(batch)

\* C5: the matches of one iteration are appended together in received order,
\* after the earlier batches; the pool keeps received order; inclusion does not
\* depend on where a descendant stands relative to its predecessor.
C5_Ordering == [](PoolKeepsOrder /\ InclusionIndependent) /\ [][BatchStep]_vars

\* C5: a finished thread in which a post received later stands before a post
\* received earlier (the reply arrived before the post it replies to).
C5_Witness ==
  /\ pc = "done"
  /\ \E i \in 2..(Len(thread) - 1) : thread[i].content > thread[i + 1].content

\* C6 as stated: a failed fetch leads the view to a visible failed state.
C6_FetchFailureShowsError == fetchResult = "Err" => View = "error"

\* C7: fetch_status_and_context returns a pair only when both requests and
\* both decodings succeeded, returns a failure when one of the four fails
\* (and only then), decoding starts only after both requests succeeded, and
\* the reconstruction starts only after it returned the pair.
C7_FetchAllOrNothing ==
  LET steps == <<statusSend, contextSend, statusJson, contextJson>> IN
  /\ fetchResult = "Ok" =>
       (\A k \in 1..4 : steps[k] = "ok") /\ status # <<>> /\ context # <<>>
  /\ fetchResult = "Err" <=> (\E k \in 1..4 : steps[k] = "err")
  /\ (statusJson # "idle" \/ contextJson # "idle") =>
       statusSend = "ok" /\ contextSend = "ok"
  /\ (Reconstructing \/ thread # <<>> \/ iterations > 0) => fetchResult = "Ok"

\* C7: the loop is about to start on a fetched pair.
C7_Witness == pc = "loop" /\ fetchResult = "Ok" /\ iterations = 0

\* C8: every post of the thread after the first has the root post's account
\* id, at every step; when no descendant has it, the thread is [root].
C8_OnlyOriginalPoster ==
  /\ \A i \in 2..Len(thread) : thread[i].account.id = thread[1].account.id
  /\ (Reconstructing /\ \A k \in DOMAIN received : ~ByRootAuthor(received[k])) =>
       thread = <<root>> /\ pc # "panic_reply"

\* C8: a finished thread of several posts that left out another account's
\* reply to the root.
C8_Witness ==
  /\ pc = "done"
  /\ Len(thread) >= 2
  /\ \E k \in DOMAIN received :
       ~ByRootAuthor(received[k]) /\ received[k].in_reply_to_id = root.id

\* Home has navigated away from "/".
Navigated == route # HomePath

\* C9 as stated: Home navigates exactly when the pasted text parses as a URL
\* with a host whose last path segment is a non-empty run of decimal digits,
\* and then to /{host}/{id}.
C9_NavigatesIffNumericId ==
  LET ok == /\ url # <<>>
            /\ url[1].host_str # <<>>
            /\ url[1].path_segments # <<>>
            /\ LET id == Last(url[1].path_segments[1]) IN
               id # <<>> /\ \A k \in DOMAIN id : IsDigit(id[k])
  IN /\ Navigated <=> ok
     /\ Navigated =>
          route = RoutePath(url[1].host_str[1], Last(url[1].path_segments[1]))

Count(s, x) == Cardinality({k \in DOMAIN s : s[k] = x})

\* C10: at the start of every iteration (and at the end of the loop) the
\* thread without its first post, together with the pool, holds the received
\* descendants, each as often as received, and the first post is the root.
C10_Conservation ==
  pc \in {"loop", "done"} =>
    /\ thread[1] = root
    /\ LET held == Tail(thread) \o descendants IN
       \A d \in Range(received) \cup Range(held) : Count(held, d) = Count(received, d)

\* C10: an iteration starts with posts in the thread and posts in the pool.
C10_Witness == pc = "loop" /\ Len(thread) >= 2 /\ descendants # <<>>

====
